---- MODULE Spec2Model ----
(***************************************************************************)
(* Model of src/src/checksum.rs: the Luhn and Verhoeff check digit         *)
(* algorithms behind the CheckDigitAlgorithm trait.                        *)
(*                                                                         *)
(* A u64 is wider than TLC's integers, so a u64 value v is held as three   *)
(* decimal limbs <<h, m, l>> with v = h * LIMB^2 + m * LIMB + l and        *)
(* 0 <= m, l < LIMB.  All u64 arithmetic of the code (/ 10, * 10, -, the   *)
(* comparison with 0) is carried out on the limbs.  The u32 and u8 values  *)
(* of the code are TLC integers; TLC rejects any integer above 2^31 - 1,   *)
(* which is below 2^32, so a u32 sum that TLC can hold has not overflowed. *)
(***************************************************************************)
EXTENDS Integers, Sequences, FiniteSets, TLC

(***************************************************************************)
(* u64 arithmetic on limbs                                                 *)
(***************************************************************************)
LIMB == 10000000

\* u64::MAX = 18446744073709551615
U64_MAX == <<184467, 4407370, 9551615>>

\* 2^64 = u64::MAX + 1, the modulus of wrapping arithmetic
U64_MODULUS == <<184467, 4407370, 9551616>>

U64_ZERO == <<0, 0, 0>>

\* Carries propagated: the limbs of h * LIMB^2 + m * LIMB + l, for h, m, l >= 0.
Norm(h, m, l) ==
    LET c1 == l \div LIMB
        m1 == m + c1
    IN  <<h + (m1 \div LIMB), m1 % LIMB, l % LIMB>>

\* a < b
Lt(a, b) ==
    \/ a[1] < b[1]
    \/ a[1] = b[1] /\ a[2] < b[2]
    \/ a[1] = b[1] /\ a[2] = b[2] /\ a[3] < b[3]

\* a - b, for a >= b
Sub(a, b) ==
    LET bl == IF a[3] < b[3] THEN 1 ELSE 0
        l  == a[3] + bl * LIMB - b[3]
        bm == IF a[2] < b[2] + bl THEN 1 ELSE 0
        m  == a[2] + bm * LIMB - b[2] - bl
    IN  <<a[1] - b[1] - bm, m, l>>

\* The value modulo 2^64 (what a release build keeps of an overflowing result).
RECURSIVE WrapU64(_)
WrapU64(v) == IF Lt(U64_MAX, v) THEN WrapU64(Sub(v, U64_MODULUS)) ELSE v

\* The mathematical product a * 10, not yet reduced to 64 bits.
WideMul10(a) == Norm(a[1] * 10, a[2] * 10, a[3] * 10)

\* Whether a * 10 leaves the u64 range.
MulOverflows(a) == Lt(U64_MAX, WideMul10(a))

\* a * 10 as a u64: the wrapped product.
Mul10(a) == WrapU64(WideMul10(a))

\* a / 10 (u64 division truncates)
Div10(a) ==
    LET m1 == (a[1] % 10) * LIMB + a[2]
        l1 == (a[2] % 10) * LIMB + a[3]
    IN  <<a[1] \div 10, m1 \div 10, l1 \div 10>>

\* A u64 below LIMB as an integer (the `as u32` / `as usize` casts of a digit).
AsInt(a) == a[3]

\* An integer 0 <= k < 2^31 as a u64.
FromInt(k) == Norm(0, 0, k)

(***************************************************************************)
(* LuhnAlgorithm                                                           *)
(***************************************************************************)
\* The largest u8, the type of the position counter i.
U8_MAX == 255

\* Mutant: the doubled digit is not brought back below 10.
Luhn_second_digit_unadjusted(digit) == digit * 2

\* Mutant: the doubled digit is reduced by 10 instead of 9.
Luhn_second_digit_minus_ten(digit) ==
    LET second_digit == digit * 2
    IN  IF second_digit > 9 THEN second_digit - 10 ELSE second_digit

\* `let mut second_digit = digit * 2; if second_digit > 9 { second_digit - 9 }`
Luhn_second_digit(digit) ==
    LET second_digit == digit * 2
    IN  IF second_digit > 9 THEN second_digit - 9 ELSE second_digit

\* `if num_post_div == 0 { break; }`, the exit of both digit scans
Scan_break_early(num_post_div) == Lt(num_post_div, <<0, 0, 10>>)

Scan_break(num_post_div) == num_post_div = U64_ZERO

\* The locals of digit_sum before its loop.
Luhn_digit_sum_enter(n) ==
    [num |-> n, num_pre_div |-> n, sum |-> 0, i |-> 0, done |-> FALSE, ovf |-> FALSE]

\* One iteration of the loop of digit_sum.  done: the break was taken.
\* ovf: `i += 1` left the u8 range (the wrapped value is kept).
Luhn_digit_sum_step(s) ==
    LET num_post_div == Div10(s.num_pre_div)
        i            == (s.i + 1) % (U8_MAX + 1)
        digit        == AsInt(Sub(s.num_pre_div, Mul10(num_post_div)))
        sum          == IF i % 2 = 0
                        THEN s.sum + Luhn_second_digit(digit)
                        ELSE s.sum + digit
    IN  [num         |-> s.num,
         num_pre_div |-> IF Scan_break(num_post_div) THEN s.num_pre_div
                                                     ELSE num_post_div,
         sum         |-> sum,
         i           |-> i,
         done        |-> Scan_break(num_post_div),
         ovf         |-> s.ovf \/ s.i + 1 > U8_MAX]

\* The loop of digit_sum run to its break: the locals at the break.
RECURSIVE Luhn_digit_sum_loop(_)
Luhn_digit_sum_loop(s) ==
    IF s.done THEN s ELSE Luhn_digit_sum_loop(Luhn_digit_sum_step(s))

Luhn_digit_sum(n) == Luhn_digit_sum_loop(Luhn_digit_sum_enter(n)).sum

\* (digit_sum(num) % 10) as u8
Luhn_checksum_of_sum(sum) == sum % 10

Luhn_checksum(n) == Luhn_checksum_of_sum(Luhn_digit_sum(n))

\* Mutant: the sum is not negated modulo 10.
Luhn_check_digit_of_sum_plain(sum) == sum % 10

\* Mutant: the complement to 10, which is 10 for a sum ending in 0.
Luhn_check_digit_of_sum_complement(sum) == 10 - (sum % 10)

\* (digit_sum(num * 10) * 9 % 10) as u8, given the digit sum
Luhn_check_digit_of_sum(sum) == (sum * 9) % 10

\* Mutant: the digits of num are summed without the shift by one position.
Luhn_calculate_check_digit_unshifted(n) ==
    Luhn_check_digit_of_sum(Luhn_digit_sum(n))

\* calculate_check_digit where num * 10 wraps (or does not overflow).
Luhn_calculate_check_digit(n) == Luhn_check_digit_of_sum(Luhn_digit_sum(Mul10(n)))

Luhn_is_valid(n) == Luhn_checksum(n) = 0

(***************************************************************************)
(* VerhoeffAlgorithm                                                       *)
(***************************************************************************)
VERHOEFF_D_TABLE ==
    << <<0, 1, 2, 3, 4, 5, 6, 7, 8, 9>>,
       <<1, 2, 3, 4, 0, 6, 7, 8, 9, 5>>,
       <<2, 3, 4, 0, 1, 7, 8, 9, 5, 6>>,
       <<3, 4, 0, 1, 2, 8, 9, 5, 6, 7>>,
       <<4, 0, 1, 2, 3, 9, 5, 6, 7, 8>>,
       <<5, 9, 8, 7, 6, 0, 4, 3, 2, 1>>,
       <<6, 5, 9, 8, 7, 1, 0, 4, 3, 2>>,
       <<7, 6, 5, 9, 8, 2, 1, 0, 4, 3>>,
       <<8, 7, 6, 5, 9, 3, 2, 1, 0, 4>>,
       <<9, 8, 7, 6, 5, 4, 3, 2, 1, 0>> >>

VERHOEFF_INV_D_TABLE == <<0, 4, 3, 2, 1, 5, 6, 7, 8, 9>>

VERHOEFF_P_TABLE ==
    << <<0, 1, 2, 3, 4, 5, 6, 7, 8, 9>>,
       <<1, 5, 7, 6, 2, 8, 3, 0, 9, 4>>,
       <<5, 8, 0, 3, 7, 9, 6, 1, 4, 2>>,
       <<8, 9, 1, 6, 0, 4, 3, 5, 2, 7>>,
       <<9, 4, 5, 3, 1, 2, 6, 8, 7, 0>>,
       <<4, 2, 8, 6, 5, 7, 3, 9, 0, 1>>,
       <<2, 7, 9, 3, 8, 0, 6, 4, 1, 5>>,
       <<7, 0, 4, 6, 9, 1, 3, 2, 5, 8>> >>

\* Mutant: the permutation does not depend on the position.
Verhoeff_permute_fixed(i, digit) == VERHOEFF_P_TABLE[1][digit + 1]

\* The tables are indexed from 0 in the code and from 1 here.
\* VERHOEFF_P_TABLE[(i % 8) as usize][digit as usize]
Verhoeff_permute(i, digit) == VERHOEFF_P_TABLE[(i % 8) + 1][digit + 1]

\* VERHOEFF_D_TABLE[c as usize][... as usize]
Verhoeff_multiply(c, p) == VERHOEFF_D_TABLE[c + 1][p + 1]

\* The locals of checksum before its loop.
Verhoeff_checksum_enter(n) ==
    [num |-> n, num_pre_div |-> n, i |-> 0, c |-> 0, done |-> FALSE, ovf |-> FALSE]

\* One iteration of the loop of checksum.  done: the break was taken.
\* ovf: `i += 1` left the u8 range (the wrapped value is kept).
Verhoeff_checksum_step(s) ==
    LET num_post_div == Div10(s.num_pre_div)
        digit        == AsInt(Sub(s.num_pre_div, Mul10(num_post_div)))
        c            == Verhoeff_multiply(s.c, Verhoeff_permute(s.i, digit))
    IN  [num         |-> s.num,
         num_pre_div |-> IF Scan_break(num_post_div) THEN s.num_pre_div
                                                     ELSE num_post_div,
         i           |-> (s.i + 1) % (U8_MAX + 1),
         c           |-> c,
         done        |-> Scan_break(num_post_div),
         ovf         |-> s.ovf \/ s.i + 1 > U8_MAX]

\* The loop of checksum run to its break: the locals at the break.
RECURSIVE Verhoeff_checksum_loop(_)
Verhoeff_checksum_loop(s) ==
    IF s.done THEN s ELSE Verhoeff_checksum_loop(Verhoeff_checksum_step(s))

Verhoeff_checksum(n) == Verhoeff_checksum_loop(Verhoeff_checksum_enter(n)).c

\* Mutant: the accumulator itself is returned, not its inverse.
Verhoeff_inverse_skipped(c) == c

\* VERHOEFF_INV_D_TABLE[c as usize]
Verhoeff_inverse(c) == VERHOEFF_INV_D_TABLE[c + 1]

\* calculate_check_digit where num * 10 wraps (or does not overflow).
Verhoeff_calculate_check_digit(n) == Verhoeff_inverse(Verhoeff_checksum(Mul10(n)))

Verhoeff_is_valid(n) == Verhoeff_checksum(n) = 0

(***************************************************************************)
(* Decimal notation of a u64: the digit positions the error classes of the *)
(* LuhnAlgorithm doc comment speak of, counted from 0 at the right.  These *)
(* read the limbs directly and share nothing with the loops above.         *)
(***************************************************************************)
LimbIndex(p) == IF p >= 14 THEN 1 ELSE 3 - (p \div 7)

LimbExp(p) == IF p >= 14 THEN p - 14 ELSE p % 7

DigitAt(n, p) == (n[LimbIndex(p)] \div (10 ^ LimbExp(p))) % 10

SetDigit(n, p, d) ==
    [n EXCEPT ![LimbIndex(p)] = @ + (d - DigitAt(n, p)) * (10 ^ LimbExp(p))]

\* The number of decimal digits of a limb value (1 for 0).
Len10(k) == CHOOSE d \in 1..7 : k < 10 ^ d /\ (d = 1 \/ k >= 10 ^ (d - 1))

\* The number of decimal digits of n (1 for 0).
NumDigits(n) ==
    IF n[1] > 0 THEN 14 + Len10(n[1])
    ELSE IF n[2] > 0 THEN 7 + Len10(n[2])
    ELSE Len10(n[3])

FitsU64(v) == ~Lt(U64_MAX, v)

(***************************************************************************)
(* Inputs                                                                  *)
(***************************************************************************)
\* Every number of at most MaxDigits digits is an input.
MaxDigits == 3

\* Every pair of digits is an input at every shift up to MaxShift, so that
\* each row of VERHOEFF_P_TABLE (i % 8) and both parities of Luhn's i % 2
\* meet every digit and every adjacent pair.
MaxShift == 8

\* The number with the digits a b at positions s + 1, s and zeros below.
Shifted(a, b, s) == SetDigit(SetDigit(U64_ZERO, s, b), s + 1, a)

\* The numbers of the doctests, long numbers that each algorithm accepts,
\* the numbers around the largest num whose product num * 10 fits, and
\* u64::MAX.
Specimens ==
    { <<0, 7992, 7398713>>,          \* 79927398713, valid for Luhn
      <<0, 799, 2739871>>,           \* 7992739871
      <<0, 0, 2363>>,                \* 2363, valid for Verhoeff
      <<0, 907050, 3012349>>,        \* 9070503012349, valid for Verhoeff
      <<123456, 7890123, 4567895>>,  \* 12345678901234567895, valid for Verhoeff
      <<123456, 7890123, 4567894>>,  \* 12345678901234567894, valid for Luhn
      <<18446, 7440737, 955160>>,    \* (u64::MAX - 9) / 10
      <<18446, 7440737, 955161>>,    \* u64::MAX / 10
      <<18446, 7440737, 955162>>,    \* u64::MAX / 10 + 1
      U64_MAX }

Inputs ==
    { FromInt(k) : k \in 0..(10 ^ MaxDigits - 1) }
        \cup { Shifted(a, b, s) : a \in 1..9, b \in 0..9, s \in 1..MaxShift }
        \cup Specimens

(***************************************************************************)
(* State                                                                   *)
(*   num    the number the caller holds                                    *)
(*   cur    the number passed to the algorithms: num, num with a           *)
(*          transcription error, or num with its check digit appended      *)
(*   edit   how cur was made from num                                      *)
(*   call   the last call of a CheckDigitAlgorithm method and its outcome  *)
(*   pc     where the running call is (ScanSpec runs the loops stepwise)   *)
(*   frame  the locals of the running loop                                 *)
(***************************************************************************)
VARIABLES num, cur, edit, call, pc, frame

vars == <<num, cur, edit, call, pc, frame>>

NoEdit == [kind |-> "none", pos |-> 0, from |-> 0, to |-> 0]

NoCall == [alg |-> "none", fn |-> "none", arg |-> U64_ZERO, outcome |-> "none",
           ret |-> <<>>, wrapped |-> FALSE]

NoFrame == <<>>

Returned(alg, fn, arg, ret, wrapped) ==
    [alg |-> alg, fn |-> fn, arg |-> arg, outcome |-> "ok", ret |-> ret,
     wrapped |-> wrapped]

\* A debug build (overflow checks on) panics at `num * 10`.
Panicked(alg, fn, arg) ==
    [alg |-> alg, fn |-> fn, arg |-> arg, outcome |-> "panic", ret |-> <<>>,
     wrapped |-> FALSE]

Init ==
    /\ num \in Inputs
    /\ cur = num
    /\ edit = NoEdit
    /\ call = NoCall
    /\ pc = "idle"
    /\ frame = NoFrame

(***************************************************************************)
(* Transcription errors and the appending of a check digit                 *)
(***************************************************************************)
Editable == edit.kind = "none" /\ call.fn = "none" /\ pc = "idle"

\* A single-digit error: the digit at position p becomes d.
Substitute(p, d) ==
    /\ Editable
    /\ p < NumDigits(num)
    /\ d # DigitAt(num, p)
    /\ FitsU64(SetDigit(num, p, d))
    /\ cur' = SetDigit(num, p, d)
    /\ edit' = [kind |-> "substitution", pos |-> p, from |-> DigitAt(num, p), to |-> d]
    /\ UNCHANGED <<num, call, pc, frame>>

\* A transposition of the adjacent digits at positions p and p + 1.
Transpose(p) ==
    LET a == DigitAt(num, p)
        b == DigitAt(num, p + 1)
        swapped == SetDigit(SetDigit(num, p, b), p + 1, a)
    IN  /\ Editable
        /\ p + 1 < NumDigits(num)
        /\ a # b
        /\ FitsU64(swapped)
        /\ cur' = swapped
        /\ edit' = [kind |-> "transposition", pos |-> p, from |-> a, to |-> b]
        /\ UNCHANGED <<num, call, pc, frame>>

\* A twin error: the equal digits at positions p and p + 1 both become b.
Twin(p, b) ==
    LET a == DigitAt(num, p)
        twin == SetDigit(SetDigit(num, p, b), p + 1, b)
    IN  /\ Editable
        /\ p + 1 < NumDigits(num)
        /\ a = DigitAt(num, p + 1)
        /\ b # a
        /\ FitsU64(twin)
        /\ cur' = twin
        /\ edit' = [kind |-> "twin", pos |-> p, from |-> a, to |-> b]
        /\ UNCHANGED <<num, call, pc, frame>>

\* num * 10 + d as a u64, where num * 10 + 9 fits
WithCheckDigit(n, d) == Norm(WideMul10(n)[1], WideMul10(n)[2], WideMul10(n)[3] + d)

CanAppend(n) == FitsU64(WithCheckDigit(n, 9))

\* The doctests' use: num followed by its Luhn check digit.
AppendLuhn ==
    /\ Editable
    /\ CanAppend(num)
    /\ cur' = WithCheckDigit(num, Luhn_calculate_check_digit(num))
    /\ edit' = [kind |-> "luhn_check_digit", pos |-> 0, from |-> 0,
                to |-> Luhn_calculate_check_digit(num)]
    /\ UNCHANGED <<num, call, pc, frame>>

\* The doctests' use: num followed by its Verhoeff check digit.
AppendVerhoeff ==
    /\ Editable
    /\ CanAppend(num)
    /\ cur' = WithCheckDigit(num, Verhoeff_calculate_check_digit(num))
    /\ edit' = [kind |-> "verhoeff_check_digit", pos |-> 0, from |-> 0,
                to |-> Verhoeff_calculate_check_digit(num)]
    /\ UNCHANGED <<num, call, pc, frame>>

\* The errors the LuhnAlgorithm doc comment lists, and the Luhn check digit.
LuhnEdit ==
    /\ Editable
    /\ \/ \E p \in 0..(NumDigits(num) - 1), d \in 0..9 : Substitute(p, d)
       \/ \E p \in 0..(NumDigits(num) - 2) : Transpose(p)
       \/ \E p \in 0..(NumDigits(num) - 2), b \in 0..9 : Twin(p, b)
       \/ AppendLuhn

\* Single-digit errors, adjacent transpositions, and the Verhoeff check digit.
VerhoeffEdit ==
    /\ Editable
    /\ \/ \E p \in 0..(NumDigits(num) - 1), d \in 0..9 : Substitute(p, d)
       \/ \E p \in 0..(NumDigits(num) - 2) : Transpose(p)
       \/ AppendVerhoeff

(***************************************************************************)
(* The CheckDigitAlgorithm methods, each call one step                     *)
(***************************************************************************)
Callable == call.fn = "none" /\ pc = "idle"

LuhnChecksum ==
    /\ Callable
    /\ call' = Returned("luhn", "checksum", cur, Luhn_checksum(cur), FALSE)
    /\ UNCHANGED <<num, cur, edit, pc, frame>>

LuhnCalculateCheckDigit ==
    /\ Callable
    /\ \/ /\ ~MulOverflows(cur)
          /\ call' = Returned("luhn", "calculate_check_digit", cur,
                              Luhn_calculate_check_digit(cur), FALSE)
       \/ /\ MulOverflows(cur)
          /\ call' = Returned("luhn", "calculate_check_digit", cur,
                              Luhn_calculate_check_digit(cur), TRUE)
       \/ /\ MulOverflows(cur)
          /\ call' = Panicked("luhn", "calculate_check_digit", cur)
    /\ UNCHANGED <<num, cur, edit, pc, frame>>

LuhnIsValid ==
    /\ Callable
    /\ call' = Returned("luhn", "is_valid", cur, Luhn_is_valid(cur), FALSE)
    /\ UNCHANGED <<num, cur, edit, pc, frame>>

VerhoeffChecksum ==
    /\ Callable
    /\ call' = Returned("verhoeff", "checksum", cur, Verhoeff_checksum(cur), FALSE)
    /\ UNCHANGED <<num, cur, edit, pc, frame>>

VerhoeffCalculateCheckDigit ==
    /\ Callable
    /\ \/ /\ ~MulOverflows(cur)
          /\ call' = Returned("verhoeff", "calculate_check_digit", cur,
                              Verhoeff_calculate_check_digit(cur), FALSE)
       \/ /\ MulOverflows(cur)
          /\ call' = Returned("verhoeff", "calculate_check_digit", cur,
                              Verhoeff_calculate_check_digit(cur), TRUE)
       \/ /\ MulOverflows(cur)
          /\ call' = Panicked("verhoeff", "calculate_check_digit", cur)
    /\ UNCHANGED <<num, cur, edit, pc, frame>>

VerhoeffIsValid ==
    /\ Callable
    /\ call' = Returned("verhoeff", "is_valid", cur, Verhoeff_is_valid(cur), FALSE)
    /\ UNCHANGED <<num, cur, edit, pc, frame>>

\* Callers of LuhnAlgorithm: a number, perhaps edited, and one call.
LuhnNext ==
    \/ LuhnEdit
    \/ LuhnChecksum
    \/ LuhnCalculateCheckDigit
    \/ LuhnIsValid

LuhnSpec == Init /\ [][LuhnNext]_vars

\* Callers of VerhoeffAlgorithm: a number, perhaps edited, and one call.
VerhoeffNext ==
    \/ VerhoeffEdit
    \/ VerhoeffChecksum
    \/ VerhoeffCalculateCheckDigit
    \/ VerhoeffIsValid

VerhoeffSpec == Init /\ [][VerhoeffNext]_vars

(***************************************************************************)
(* The same methods with their loops run one iteration per step            *)
(***************************************************************************)
Fns == {"checksum", "calculate_check_digit", "is_valid"}

Running(alg, fn, arg, wrapped) ==
    [alg |-> alg, fn |-> fn, arg |-> arg, outcome |-> "running", ret |-> <<>>,
     wrapped |-> wrapped]

\* What the method fn of LuhnAlgorithm returns, given digit_sum's result.
Luhn_return(fn, sum) ==
    CASE fn = "checksum" -> Luhn_checksum_of_sum(sum)
      [] fn = "calculate_check_digit" -> Luhn_check_digit_of_sum(sum)
      [] fn = "is_valid" -> Luhn_checksum_of_sum(sum) = 0

\* What the method fn of VerhoeffAlgorithm returns, given the scan's c.
Verhoeff_return(fn, c) ==
    CASE fn = "checksum" -> c
      [] fn = "calculate_check_digit" -> Verhoeff_inverse(c)
      [] fn = "is_valid" -> c = 0

\* The argument of the scan: num * 10 for calculate_check_digit, else num.
Scanned(fn, n) == IF fn = "calculate_check_digit" THEN Mul10(n) ELSE n

\* `num * 10` overflows and the build checks overflow: the call panics.
ScanPanic(alg) ==
    /\ Callable
    /\ MulOverflows(cur)
    /\ call' = Panicked(alg, "calculate_check_digit", cur)
    /\ pc' = "done"
    /\ UNCHANGED <<num, cur, edit, frame>>

LuhnEnter(fn) ==
    /\ Callable
    /\ call' = Running("luhn", fn, cur,
                       fn = "calculate_check_digit" /\ MulOverflows(cur))
    /\ frame' = Luhn_digit_sum_enter(Scanned(fn, cur))
    /\ pc' = "digit_sum"
    /\ UNCHANGED <<num, cur, edit>>

LuhnStep ==
    /\ pc = "digit_sum"
    /\ ~frame.done
    /\ frame' = Luhn_digit_sum_step(frame)
    /\ UNCHANGED <<num, cur, edit, call, pc>>

LuhnReturn ==
    /\ pc = "digit_sum"
    /\ frame.done
    /\ call' = [call EXCEPT !.outcome = "ok",
                            !.ret = Luhn_return(call.fn, frame.sum)]
    /\ pc' = "done"
    /\ UNCHANGED <<num, cur, edit, frame>>

VerhoeffEnter(fn) ==
    /\ Callable
    /\ call' = Running("verhoeff", fn, cur,
                       fn = "calculate_check_digit" /\ MulOverflows(cur))
    /\ frame' = Verhoeff_checksum_enter(Scanned(fn, cur))
    /\ pc' = "verhoeff_scan"
    /\ UNCHANGED <<num, cur, edit>>

VerhoeffStep ==
    /\ pc = "verhoeff_scan"
    /\ ~frame.done
    /\ frame' = Verhoeff_checksum_step(frame)
    /\ UNCHANGED <<num, cur, edit, call, pc>>

VerhoeffReturn ==
    /\ pc = "verhoeff_scan"
    /\ frame.done
    /\ call' = [call EXCEPT !.outcome = "ok",
                            !.ret = Verhoeff_return(call.fn, frame.c)]
    /\ pc' = "done"
    /\ UNCHANGED <<num, cur, edit, frame>>

ScanNext ==
    \/ \E fn \in Fns : LuhnEnter(fn)
    \/ ScanPanic("luhn")
    \/ LuhnStep
    \/ LuhnReturn
    \/ \E fn \in Fns : VerhoeffEnter(fn)
    \/ ScanPanic("verhoeff")
    \/ VerhoeffStep
    \/ VerhoeffReturn

ScanSpec == Init /\ [][ScanNext]_vars

(***************************************************************************)
(* Properties                                                              *)
(***************************************************************************)
LuhnReturned(fn) == call.alg = "luhn" /\ call.fn = fn /\ call.outcome = "ok"

VerhoeffReturned(fn) == call.alg = "verhoeff" /\ call.fn = fn /\ call.outcome = "ok"

\* C1: Luhn round trip.  For a number num such that num * 10 + 9 fits in a
\* u64, the number num * 10 + calculate_check_digit(num) has checksum 0 and
\* is accepted by is_valid.
C1_LuhnRoundTrip ==
    edit.kind = "luhn_check_digit" =>
        /\ LuhnReturned("checksum") => call.ret = 0
        /\ LuhnReturned("is_valid") => call.ret = TRUE

C1_Witness ==
    /\ edit.kind = "luhn_check_digit"
    /\ num = <<0, 799, 2739871>>
    /\ edit.to = 3
    /\ LuhnReturned("checksum")
    /\ call.arg = <<0, 7992, 7398713>>

\* C2: Verhoeff round trip.  For a number num such that num * 10 + 9 fits in
\* a u64, the number num * 10 + calculate_check_digit(num) has checksum 0.
C2_VerhoeffRoundTrip ==
    edit.kind = "verhoeff_check_digit" =>
        /\ VerhoeffReturned("checksum") => call.ret = 0
        /\ VerhoeffReturned("is_valid") => call.ret = TRUE

C2_Witness ==
    /\ edit.kind = "verhoeff_check_digit"
    /\ num = <<0, 0, 236>>
    /\ edit.to = 3
    /\ VerhoeffReturned("checksum")
    /\ call.arg = <<0, 0, 2363>>

\* A single-digit error or adjacent transposition of a number that
\* VerhoeffAlgorithm accepts, handed to is_valid.
C3_Case ==
    /\ edit.kind \in {"substitution", "transposition"}
    /\ VerhoeffReturned("is_valid")
    /\ Verhoeff_is_valid(num)

\* C3 as stated: Verhoeff rejects every number made from a valid number by
\* a single-digit substitution or an adjacent transposition.
C3_AsStated == C3_Case => call.ret = FALSE

\* C3 as amended: Verhoeff rejects every number made from a valid number by
\* a single-digit substitution or an adjacent transposition that keeps the
\* number of decimal digits, that is, one that does not put a 0 in the most
\* significant position.
C3_VerhoeffDetectsSameLength ==
    (C3_Case /\ NumDigits(cur) = NumDigits(num)) => call.ret = FALSE

C3_Witness ==
    /\ C3_Case
    /\ edit.kind = "transposition"
    /\ NumDigits(cur) = NumDigits(num)
    /\ edit.pos >= 5
    /\ call.ret = FALSE

\* C4: no call fails and no intermediate value overflows: not the product
\* num * 10, not the position counter.
C4_NoFailure ==
    /\ call.outcome # "panic"
    /\ ~call.wrapped
    /\ pc \in {"digit_sum", "verhoeff_scan"} => ~frame.ovf

\* C5: Luhn detects every single-digit error: the checksum of the number
\* with one digit replaced differs from the checksum of the number, and a
\* number made so from a valid one is rejected.
C5_LuhnDetectsSubstitution ==
    edit.kind = "substitution" =>
        /\ LuhnReturned("checksum") => call.ret # Luhn_checksum(num)
        /\ (LuhnReturned("is_valid") /\ Luhn_is_valid(num)) => call.ret = FALSE

C5_Witness ==
    /\ edit.kind = "substitution"
    /\ edit.pos = 1
    /\ edit.from = 9
    /\ edit.to = 0
    /\ LuhnReturned("checksum")
    /\ call.ret # Luhn_checksum(num)

\* C6: swapping two adjacent distinct digits a, b leaves the Luhn checksum
\* unchanged exactly when {a, b} = {0, 9}; is_valid then gives the same
\* answer for both numbers.
C6_LuhnTranspositionBlindSpot ==
    edit.kind = "transposition" =>
        /\ LuhnReturned("checksum") =>
              ((call.ret = Luhn_checksum(num)) <=> ({edit.from, edit.to} = {0, 9}))
        /\ (LuhnReturned("is_valid") /\ {edit.from, edit.to} = {0, 9}) =>
              call.ret = Luhn_is_valid(num)

C6_Witness ==
    /\ edit.kind = "transposition"
    /\ {edit.from, edit.to} = {0, 9}
    /\ LuhnReturned("checksum")
    /\ call.ret = Luhn_checksum(num)

UndetectedTwins == {{2, 5}, {3, 6}, {4, 7}}

\* C7: replacing two adjacent equal digits aa by bb leaves the Luhn checksum
\* unchanged exactly when {a, b} is {2, 5}, {3, 6} or {4, 7}.
C7_LuhnTwinErrors ==
    (edit.kind = "twin" /\ LuhnReturned("checksum")) =>
        ((call.ret = Luhn_checksum(num)) <=> ({edit.from, edit.to} \in UndetectedTwins))

C7_Witness ==
    /\ edit.kind = "twin"
    /\ {edit.from, edit.to} = {4, 7}
    /\ LuhnReturned("checksum")
    /\ call.ret = Luhn_checksum(num)

\* The digit the next iteration of a scan reads from frame.
NextDigit == AsInt(Sub(frame.num_pre_div, Mul10(Div10(frame.num_pre_div))))

\* C8: checksum and calculate_check_digit return a digit 0..9; the Verhoeff
\* accumulator c is in 0..9 after every iteration, and every index into the
\* multiplication, permutation and inverse tables is within the table.
C8_DigitsOnly ==
    /\ (pc = "done" /\ call.outcome = "ok" /\ call.fn # "is_valid") =>
          call.ret \in 0..9
    /\ pc = "verhoeff_scan" =>
          /\ frame.c \in 0..9
          /\ ~frame.done =>
                /\ NextDigit \in 0..9
                /\ Verhoeff_permute(frame.i, NextDigit) \in 0..9
    /\ pc = "digit_sum" /\ ~frame.done => NextDigit \in 0..9

C8_Witness ==
    /\ pc = "done"
    /\ VerhoeffReturned("calculate_check_digit")
    /\ call.ret = 9
    /\ frame.i > 3

\* The check digit as specified: the digits of n from the right, those at
\* the 1-based positions 1, 3, 5, ... doubled (less 9 when above 9), the
\* others as they are; the sum times 9, modulo 10.  q is 0-based.
RECURSIVE OddDoubledSum(_, _)
OddDoubledSum(n, q) ==
    IF q >= NumDigits(n) THEN 0
    ELSE LET d == DigitAt(n, q)
             t == IF q % 2 = 1 THEN d
                  ELSE IF 2 * d > 9 THEN 2 * d - 9 ELSE 2 * d
         IN  t + OddDoubledSum(n, q + 1)

\* C9: for num whose product num * 10 fits, Luhn's calculate_check_digit
\* returns the check digit as specified over the digits of num itself.
C9_LuhnCheckDigitAsSpecified ==
    (LuhnReturned("calculate_check_digit") /\ ~MulOverflows(call.arg)) =>
        call.ret = (OddDoubledSum(call.arg, 0) * 9) % 10

C9_Witness ==
    /\ LuhnReturned("calculate_check_digit")
    /\ call.arg = <<0, 799, 2739871>>
    /\ call.ret = 3

\* C10: a digit scan makes exactly as many iterations as its argument has
\* decimal digits (1 for 0, at most 20), and after i iterations the digits
\* left to scan are those of the argument from position i up.
C10_OneIterationPerDigit ==
    pc \in {"digit_sum", "verhoeff_scan", "done"} /\ call.outcome # "panic" =>
        /\ NumDigits(frame.num) <= 20
        /\ frame.i <= NumDigits(frame.num)
        /\ frame.done <=> frame.i = NumDigits(frame.num)
        /\ pc = "done" => frame.done
        /\ ~frame.done =>
              /\ NumDigits(frame.num_pre_div) = NumDigits(frame.num) - frame.i
              /\ \A q \in 0..(NumDigits(frame.num_pre_div) - 1) :
                    DigitAt(frame.num_pre_div, q) = DigitAt(frame.num, q + frame.i)

C10_Witness ==
    /\ pc = "done"
    /\ call.outcome = "ok"
    /\ frame.num = U64_MAX
    /\ frame.i = 20
====
